---- MODULE Spec2Model ----
(***************************************************************************)
(* Model of schemagen.py: the $ref resolver (SchemaGenerator.replace_refs) *)
(* and the JSON-schema-to-EDMX projector (JsontoXml.schema_parser and      *)
(* JsontoXml.jsonschema_to_xml).                                           *)
(*                                                                         *)
(* Python strings are sequences of one-character strings, so that          *)
(* concatenation, upper(), lower(), title(), split() and basename() are    *)
(* computed and not assumed.  A JSON value is a record [t, v]:             *)
(*   t = "dict"  v = sequence of <<key, value>> pairs, in insertion order  *)
(*   t = "list"  v = sequence of values                                    *)
(*   t = "str"   v = the characters                                        *)
(*   t = "None"  v = <<>>                                                  *)
(* and t = "raise" stands for an exception that left the call.             *)
(***************************************************************************)
EXTENDS Naturals, Sequences, FiniteSets

VARIABLES
    pc,                     \* position of the main program
    ref_paths,              \* SchemaGenerator.ref_paths: basename -> parsed file
    base_schema,            \* SchemaGenerator.base_schema, the root document
    master_schema,          \* what replace_refs returned
    doc,                    \* the document handed to schema_parser
    schema,                 \* schema_parser's local 'schema'
    iters,                  \* iterations of schema_parser's while loop so far
    required,               \* JsontoXml.required
    parent_basetype,        \* JsontoXml.parent_basetype
    error_status_present,   \* JsontoXml.error_status_present
    output                  \* what schema_parser returned

vars == <<pc, ref_paths, base_schema, master_schema, doc, schema, iters,
          required, parent_basetype, error_status_present, output>>

---------------------------------------------------------------------------
(* Bounds of the model *)

MaxDepth == 1

---------------------------------------------------------------------------
(* Python strings *)

LowerAlpha == <<"a","b","c","d","e","f","g","h","i","j","k","l","m",
                "n","o","p","q","r","s","t","u","v","w","x","y","z">>

UpperAlpha == <<"A","B","C","D","E","F","G","H","I","J","K","L","M",
                "N","O","P","Q","R","S","T","U","V","W","X","Y","Z">>

IsLower(c) == \E i \in 1..Len(LowerAlpha) : LowerAlpha[i] = c

IsUpper(c) == \E i \in 1..Len(UpperAlpha) : UpperAlpha[i] = c

upperc(c) == IF IsLower(c)
             THEN UpperAlpha[CHOOSE i \in 1..Len(LowerAlpha) : LowerAlpha[i] = c]
             ELSE c

lowerc(c) == IF IsUpper(c)
             THEN LowerAlpha[CHOOSE i \in 1..Len(UpperAlpha) : UpperAlpha[i] = c]
             ELSE c

lower(s) == [i \in 1..Len(s) |-> lowerc(s[i])]

\* str.title(): a letter that follows a non-letter is upper-cased, any other
\* letter is lower-cased
title(s) == [i \in 1..Len(s) |->
               IF i = 1 \/ ~(IsLower(s[i-1]) \/ IsUpper(s[i-1]))
               THEN upperc(s[i]) ELSE lowerc(s[i])]

\* val[0].upper() + val[1:], for a non-empty val
Capitalize(val) == <<upperc(val[1])>> \o SubSeq(val, 2, Len(val))

\* sub in s
Contains(sub, s) ==
    \E i \in 0..(Len(s) - Len(sub)) : SubSeq(s, i + 1, i + Len(sub)) = sub

MaxOf(S) == CHOOSE x \in S : \A y \in S : y <= x

\* os.path.basename: what follows the last "/"
basename(p) ==
    LET idx == {i \in 1..Len(p) : p[i] = "/"}
    IN  IF idx = {} THEN p ELSE SubSeq(p, MaxOf(idx) + 1, Len(p))

\* name.split('-')
split(s) ==
    LET cuts == {i \in 1..Len(s) : s[i] = "-"}
        Seg(i) == LET next == {j \in cuts : j > i}
                      stop == IF next = {} THEN Len(s) + 1
                              ELSE CHOOSE j \in next : \A k \in next : j <= k
                  IN  SubSeq(s, i + 1, stop - 1)
        RECURSIVE From(_)
        From(i) == LET next == {j \in cuts : j > i}
                   IN  IF next = {} THEN <<Seg(i)>>
                       ELSE <<Seg(i)>> \o From(CHOOSE j \in next : \A k \in next : j <= k)
    IN  From(0)

---------------------------------------------------------------------------
(* JSON values *)

None == [t |-> "None", v |-> <<>>]

Raised == [t |-> "raise", v |-> <<>>]

Str(s) == [t |-> "str", v |-> s]

List(items) == [t |-> "list", v |-> items]

Dict(items) == [t |-> "dict", v |-> items]

\* k in d
Has(d, k) == \E i \in 1..Len(d.v) : d.v[i][1] = k

\* d.get(k)
Get(d, k) == IF Has(d, k)
             THEN d.v[CHOOSE i \in 1..Len(d.v) : d.v[i][1] = k][2]
             ELSE None

Keys(d) == {d.v[i][1] : i \in 1..Len(d.v)}

\* Python truthiness of a value
Truthy(n) == n.t \in {"dict", "list", "str"} /\ Len(n.v) > 0

S_ref == <<"$","r","e","f">>

S_schema == <<"$","s","c","h","e","m","a">>

---------------------------------------------------------------------------
(* SchemaGenerator *)

\* refresolve: the parsed file, or None after the error message
refresolve(paths, ref) ==
    IF ref \notin DOMAIN paths THEN None ELSE paths[ref]

\* PopSchema with the pop left out
PopSchema_Keep(replaced_ref) ==
    IF replaced_ref.t = "dict" THEN replaced_ref ELSE Raised

\* replaced_ref.pop("$schema", None): only a dict has this pop
PopSchema(replaced_ref) ==
    IF replaced_ref.t = "dict"
    THEN Dict(SelectSeq(replaced_ref.v, LAMBDA kv : kv[1] # S_schema))
    ELSE Raised

RECURSIVE replace_refs(_, _)

\* ResolveLoaded with the recursion into the loaded file left out
ResolveLoaded_NoRecursion(paths, resolved_schema) == resolved_schema

\* line 87: the loaded file is itself resolved
ResolveLoaded(paths, resolved_schema) == replace_refs(paths, resolved_schema)

replace_refs(paths, sch) ==
    IF sch.t = "dict" THEN
        IF Has(sch, S_ref) THEN
            IF Get(sch, S_ref).t # "str" THEN Raised
            ELSE LET ref == basename(Get(sch, S_ref).v)
                     resolved_schema == refresolve(paths, ref)
                     replaced_ref == ResolveLoaded(paths, resolved_schema)
                 IN  IF replaced_ref.t = "raise" THEN Raised
                     ELSE PopSchema(replaced_ref)
        ELSE LET vals == [i \in 1..Len(sch.v) |-> replace_refs(paths, sch.v[i][2])]
             IN  IF \E i \in 1..Len(vals) : vals[i].t = "raise" THEN Raised
                 ELSE Dict([i \in 1..Len(sch.v) |-> <<sch.v[i][1], vals[i]>>])
    ELSE IF sch.t = "list" THEN
        LET vals == [i \in 1..Len(sch.v) |-> replace_refs(paths, sch.v[i])]
        IN  IF \E i \in 1..Len(vals) : vals[i].t = "raise" THEN Raised
            ELSE List(vals)
    ELSE sch

---------------------------------------------------------------------------
(* Strings the projector looks for or writes *)

S_required == <<"r","e","q","u","i","r","e","d">>

S_properties == <<"p","r","o","p","e","r","t","i","e","s">>

S_id == <<"$","i","d">>

S_oneOf == <<"o","n","e","O","f">>

S_items == <<"i","t","e","m","s">>

S_type == <<"t","y","p","e">>

S_section == <<"s","e","c","t","i","o","n">>

S_validationbits == <<"v","a","l","i","d","a","t","i","o","n","b","i","t","s">>

S_namevaluepair == <<"n","a","m","e","v","a","l","u","e","p","a","i","r">>

S_errorstatuserrortype ==
    <<"e","r","r","o","r","s","t","a","t","u","s","e","r","r","o","r","t","y","p","e">>

S_object == <<"o","b","j","e","c","t">>

S_array == <<"a","r","r","a","y">>

S_integer == <<"i","n","t","e","g","e","r">>

S_uint64 == <<"u","i","n","t","6","4">>

S_string == <<"s","t","r","i","n","g">>

S_boolean == <<"b","o","o","l","e","a","n">>

Edm_Int64 == <<"E","d","m",".","I","n","t","6","4">>

Edm_String == <<"E","d","m",".","S","t","r","i","n","g">>

Edm_Boolean == <<"E","d","m",".","B","o","o","l","e","a","n">>

S_NvidiaCPER == <<"N","v","i","d","i","a","C","P","E","R">>

\* the default of JsontoXml.start_property, which main never changes
start_property == <<"s","e","c","t","i","o","n","s">>

---------------------------------------------------------------------------
(* The XML text, as the sequence of its elements *)

HEADER == <<[k |-> "HEADER", Name |-> <<>>, Type |-> <<>>]>>

FOOTER == <<[k |-> "FOOTER", Name |-> <<>>, Type |-> <<>>]>>

EntityTypeOpen(name) == [k |-> "EntityType", Name |-> name, Type |-> <<>>]

EntityTypeClose == [k |-> "/EntityType", Name |-> <<>>, Type |-> <<>>]

PropertyEl(name, type) == [k |-> "Property", Name |-> name, Type |-> type]

Ok(els) == [t |-> "ok", v |-> els]

---------------------------------------------------------------------------
(* JsontoXml *)

typemap == [ty \in {S_integer, S_uint64, S_string, S_boolean} |->
              IF ty = S_string THEN Edm_String
              ELSE IF ty = S_boolean THEN Edm_Boolean
              ELSE Edm_Int64]

RECURSIVE FormatFrom(_, _)

\* the loop of format_propname over names_l[i:]
FormatFrom(names_l, i) ==
    IF i > Len(names_l) THEN <<>>
    ELSE (IF names_l[i] = S_section THEN <<>> ELSE title(names_l[i]))
         \o FormatFrom(names_l, i + 1)

format_propname(name) == FormatFrom(split(name), 3)

\* encode_xml: Ok(<<start, end>>) for 'base', Ok(<<property>>) for 'property';
\* val[0] of an empty val, basetype[0] of an empty basetype and typemap[type]
\* of an unmapped type raise
encode_xml(baseid, val, ele, type, basetype) ==
    IF Len(val) = 0 THEN Raised
    ELSE IF ele = "base"
    THEN Ok(<<EntityTypeOpen(baseid \o Capitalize(val)), EntityTypeClose>>)
    ELSE IF ele = "property" THEN
        IF ~Truthy(parent_basetype) /\ Len(basetype) = 0 THEN Raised
        ELSE LET bt == IF Truthy(parent_basetype) THEN parent_basetype.v
                       ELSE Capitalize(basetype)
             IN  IF type.t = "str" /\ type.v \in {S_object, S_array}
                 THEN Ok(<<PropertyEl(Capitalize(val),
                                      bt \o <<".">> \o baseid \o Capitalize(val))>>)
                 ELSE IF type.t = "str" /\ type.v \in DOMAIN typemap
                 THEN Ok(<<PropertyEl(Capitalize(val), typemap[type.v])>>)
                 ELSE Raised
    ELSE None

\* What a call of jsonschema_to_xml comes to: a tuple (xml, ret_id), the
\* integer 1, None, or an exception; flag is error_status_present after it
Tuple(xml, ret_id, flag) ==
    [k |-> "tuple", xml |-> xml, ret_id |-> ret_id, flag |-> flag]

IntOne(flag) == [k |-> "int", xml |-> <<>>, ret_id |-> None, flag |-> flag]

NoReturn(flag) == [k |-> "None", xml |-> <<>>, ret_id |-> None, flag |-> flag]

Raise(flag) == [k |-> "raise", xml |-> <<>>, ret_id |-> None, flag |-> flag]

\* SkipProperty with the required-only filter left out
SkipProperty_Never(prop, req) == FALSE

\* line 204: the property is left out
SkipProperty(prop, req) ==
    required /\ ~(\E j \in 1..Len(req.v) : req.v[j] = Str(prop))

\* ErrorStatusRepeat with the flag never looked at
ErrorStatusRepeat_Never(baseid, basetype, flag) == FALSE

\* lines 174-178: a later meeting with the error-status entity
ErrorStatusRepeat(baseid, basetype, flag) ==
    lower(baseid \o basetype) = S_errorstatuserrortype /\ flag

\* lines 174-176: error_status_present after the first meeting
ErrorStatusFlag(baseid, basetype, flag) ==
    flag \/ lower(baseid \o basetype) = S_errorstatuserrortype

\* lines 209-210: baseid += basetype, on the loop's own variable
ValidationBitsBaseid(prop, baseid, basetype) ==
    IF lower(prop) = S_validationbits THEN baseid \o basetype ELSE baseid

\* lines 244-251: what the list branch returns after its loop; xml is the
\* local of that name, last bound by the loop
OneOfTail(basetype, baseid, property_xml, properties_oneof, xml, flag) ==
    IF Len(properties_oneof) > 0 THEN
        LET base == encode_xml(baseid, basetype, "base", None, <<>>)
            els  == [j \in 1..Len(properties_oneof) |->
                       encode_xml(baseid, properties_oneof[j], "property",
                                  Str(S_object), basetype)]
        IN  IF base.t = "raise" \/ \E j \in 1..Len(els) : els[j].t = "raise"
            THEN Raise(flag)
            ELSE Tuple(property_xml \o <<base.v[1]>>
                         \o [j \in 1..Len(els) |-> els[j].v[1]] \o <<base.v[2]>>,
                       None, flag)
    ELSE IF xml.t = "unbound" THEN Raise(flag)
    ELSE Tuple(property_xml \o xml.v, None, flag)

RECURSIVE jsonschema_to_xml(_, _, _, _, _)

RECURSIVE PropertyLoop(_, _, _, _, _, _, _, _)

RECURSIVE OneOfLoop(_, _, _, _, _, _, _, _)

\* lines 203-213, from the i-th property on
PropertyLoop(props, req, i, basetype, baseid, property_xml, xml_ret, flag) ==
    IF i > Len(props)
    THEN [k |-> "ok", property_xml |-> property_xml, xml_ret |-> xml_ret,
          flag |-> flag]
    ELSE LET prop == props[i][1]
             propval == props[i][2]
         IN  IF SkipProperty(prop, req)
             THEN PropertyLoop(props, req, i + 1, basetype, baseid,
                               property_xml, xml_ret, flag)
             ELSE LET baseid1 == ValidationBitsBaseid(prop, baseid, basetype)
                  IN  IF propval.t # "dict" \/ ~Has(propval, S_type)
                      THEN Raise(flag)
                      ELSE LET el == encode_xml(baseid1, prop, "property",
                                                Get(propval, S_type), basetype)
                               sub == jsonschema_to_xml(propval, prop, baseid1,
                                                        basetype, flag)
                           IN  IF el.t = "raise" THEN Raise(flag)
                               ELSE IF sub.k # "tuple" THEN Raise(sub.flag)
                               ELSE PropertyLoop(props, req, i + 1, basetype,
                                                 baseid1, property_xml \o el.v,
                                                 xml_ret \o sub.xml, sub.flag)

\* lines 233-241, from the i-th alternative on
OneOfLoop(items, i, basetype, baseid, property_xml, properties_oneof, xml, flag) ==
    IF i > Len(items)
    THEN OneOfTail(basetype, baseid, property_xml, properties_oneof, xml, flag)
    ELSE LET r == jsonschema_to_xml(items[i], basetype, baseid, <<>>, flag)
         IN  IF r.k # "tuple" THEN Raise(r.flag)
             ELSE OneOfLoop(items, i + 1, basetype, baseid,
                            property_xml \o r.xml,
                            IF Truthy(r.ret_id)
                            THEN Append(properties_oneof, r.ret_id.v)
                            ELSE properties_oneof,
                            Ok(r.xml), r.flag)

jsonschema_to_xml(sch, basetype, baseid, prevproperty, flag) ==
    IF sch.t = "dict" THEN
        LET req == Get(sch, S_required)
        IN  IF Truthy(req) THEN
                IF req.t # "list" THEN Raise(flag)
                ELSE IF ErrorStatusRepeat(baseid, basetype, flag)
                THEN Tuple(<<>>, Str(<<>>), flag)
                ELSE
                LET flag1 == ErrorStatusFlag(baseid, basetype, flag)
                    props == Get(sch, S_properties)
                    id    == Get(sch, S_id)
                IN  IF ~Truthy(props) THEN IntOne(flag1)
                    ELSE IF Truthy(id) /\ id.t # "str" THEN Raise(flag1)
                    ELSE
                    LET basetype1 == IF Truthy(id) /\ ~Contains(S_namevaluepair, id.v)
                                     THEN format_propname(id.v) ELSE basetype
                        base    == encode_xml(baseid, basetype1, "base", None, <<>>)
                        baseid1 == IF Truthy(id) THEN format_propname(id.v) ELSE baseid
                        ret_id  == IF Truthy(id) THEN Str(baseid1) ELSE None
                        baseid2 == IF Contains(S_validationbits, lower(basetype1))
                                   THEN baseid1 \o prevproperty ELSE baseid1
                    IN  IF base.t = "raise" \/ props.t # "dict" THEN Raise(flag1)
                        ELSE LET loop == PropertyLoop(props.v, req, 1, basetype1,
                                                      baseid2, <<base.v[1]>>, <<>>,
                                                      flag1)
                             IN  IF loop.k = "raise" THEN Raise(loop.flag)
                                 ELSE Tuple(loop.xml_ret \o loop.property_xml
                                              \o <<base.v[2]>>,
                                            ret_id, loop.flag)
            ELSE IF Truthy(Get(sch, S_oneOf))
            THEN jsonschema_to_xml(Get(sch, S_oneOf), basetype, baseid,
                                   prevproperty, flag)
            ELSE IF Truthy(Get(sch, S_items))
            THEN jsonschema_to_xml(Get(sch, S_items), basetype, baseid,
                                   prevproperty, flag)
            ELSE Tuple(<<>>, None, flag)
    ELSE IF sch.t = "list"
    THEN OneOfLoop(sch.v, 1, basetype, baseid, <<>>, <<>>,
                   [t |-> "unbound", v |-> <<>>], flag)
    ELSE NoReturn(flag)

---------------------------------------------------------------------------
(* main, subcommand json_master: the schema files and the root document *)

F_a == <<"a",".","j","s","o","n">>

F_b == <<"b",".","j","s","o","n">>

P_a == <<"a",".","j","s","o","n">>

P_b == <<"d","/","b",".","j","s","o","n">>

P_missing == <<"d","/","z","z",".","j","s","o","n">>

K_x == <<"x">>

K_y == <<"y">>

K_e == <<"e">>

K_p == <<"p">>

K_q == <<"q">>

V_1 == Str(<<"1">>)

RefTo(path) == Dict(<< <<S_ref, Str(path)>> >>)

\* a $ref mapping with another key beside it
RefWith(path) == Dict(<< <<S_ref, Str(path)>>, <<K_e, V_1>> >>)

\* a.json may point at b.json; b.json points nowhere: no reference cycle
BodiesA ==
    { Dict(<< <<S_schema, V_1>>, <<K_x, V_1>> >>),
      Dict(<< <<K_x, V_1>> >>),
      Dict(<< <<S_ref, Str(P_b)>>, <<S_schema, V_1>> >>),
      Dict(<< <<S_schema, V_1>>, <<K_x, List(<<RefTo(P_b)>>)>> >>),
      List(<<V_1>>) }

BodiesB ==
    { Dict(<< <<S_schema, V_1>>, <<K_y, V_1>> >>),
      Dict(<< <<K_y, V_1>> >>) }

FileSystems ==
    { [n \in {F_a, F_b} |-> IF n = F_a THEN ba ELSE bb] :
        ba \in BodiesA, bb \in BodiesB }

Leaves == { V_1, RefTo(P_a), RefWith(P_b), RefTo(P_missing) }

RECURSIVE Trees(_)

Trees(d) ==
    IF d = 0 THEN Leaves
    ELSE LET T == Trees(d - 1)
         IN  Leaves
             \cup { Dict(<< <<K_p, t>> >>) : t \in T }
             \cup { Dict(<< <<K_p, t1>>, <<K_q, t2>> >>) : t1 \in T, t2 \in T }
             \cup { List(<<t1, t2>>) : t1 \in T, t2 \in T }

Pending == [st |-> "pending", xml |-> <<>>]

InitMaster ==
    /\ pc = "json_master"
    /\ ref_paths \in FileSystems
    /\ base_schema \in Trees(MaxDepth)
    /\ master_schema = None
    /\ doc = None
    /\ schema = None
    /\ iters = 0
    /\ required = FALSE
    /\ parent_basetype = None
    /\ error_status_present = FALSE
    /\ output = Pending

\* main, lines 398-401
ReplaceRefs ==
    /\ pc = "json_master"
    /\ master_schema' = replace_refs(ref_paths, base_schema)
    /\ pc' = "done"
    /\ UNCHANGED <<ref_paths, base_schema, doc, schema, iters, required,
                   parent_basetype, error_status_present, output>>

NextMaster == ReplaceRefs

SpecMaster == InitMaster /\ [][NextMaster]_vars

---------------------------------------------------------------------------
(* JsontoXml.schema_parser, one action per pass of its while loop *)

MaxIters == 4

\* line 270: schema.get(start_property) is truthy
Found == schema.t = "dict" /\ Truthy(Get(schema, start_property))

\* start_property in schema['required']
StartRequired ==
    LET req == Get(schema, S_required)
    IN  IF req.t = "list" THEN \E j \in 1..Len(req.v) : req.v[j] = Str(start_property)
        ELSE IF req.t = "str" THEN Contains(start_property, req.v)
        ELSE Has(req, start_property)

ParserFrame == UNCHANGED <<ref_paths, base_schema, master_schema, doc,
                           required, parent_basetype>>

\* line 270 on a schema that is no dict: it has no get
ParserRaises ==
    /\ pc = "while"
    /\ schema.t # "dict"
    /\ pc' = "done"
    /\ output' = [st |-> "raise", xml |-> <<>>]
    /\ UNCHANGED <<schema, iters, error_status_present>>
    /\ ParserFrame

\* lines 271-273
DescendOneOf ==
    /\ pc = "while"
    /\ iters < MaxIters
    /\ schema.t = "dict" /\ ~Found
    /\ Truthy(Get(schema, S_oneOf))
    /\ iters' = iters + 1
    /\ LET alts == Get(schema, S_oneOf)
       IN  IF alts.t = "dict"
           THEN /\ pc' = "done"
                /\ output' = [st |-> "raise", xml |-> <<>>]
                /\ UNCHANGED schema
           ELSE /\ schema' = IF alts.t = "list" THEN alts.v[1] ELSE Str(<<alts.v[1]>>)
                /\ UNCHANGED <<pc, output>>
    /\ UNCHANGED error_status_present
    /\ ParserFrame

\* lines 274-277, start_property among the required names
DescendRequired ==
    /\ pc = "while"
    /\ iters < MaxIters
    /\ schema.t = "dict" /\ ~Found
    /\ ~Truthy(Get(schema, S_oneOf))
    /\ Truthy(Get(schema, S_required))
    /\ StartRequired
    /\ iters' = iters + 1
    /\ IF Has(schema, S_properties)
       THEN /\ schema' = Get(schema, S_properties)
            /\ UNCHANGED <<pc, output>>
       ELSE /\ pc' = "done"
            /\ output' = [st |-> "raise", xml |-> <<>>]
            /\ UNCHANGED schema
    /\ UNCHANGED error_status_present
    /\ ParserFrame

\* lines 274-275, start_property not among the required names: the body ends
\* without a continue or a return, and the loop tests the same schema again
RequiredWithoutStart ==
    /\ pc = "while"
    /\ iters < MaxIters
    /\ schema.t = "dict" /\ ~Found
    /\ ~Truthy(Get(schema, S_oneOf))
    /\ Truthy(Get(schema, S_required))
    /\ ~StartRequired
    /\ iters' = iters + 1
    /\ UNCHANGED <<pc, schema, output, error_status_present>>
    /\ ParserFrame

\* lines 278-280
NotFound ==
    /\ pc = "while"
    /\ schema.t = "dict" /\ ~Found
    /\ ~Truthy(Get(schema, S_oneOf))
    /\ ~Truthy(Get(schema, S_required))
    /\ pc' = "done"
    /\ output' = [st |-> "None", xml |-> <<>>]
    /\ UNCHANGED <<schema, iters, error_status_present>>
    /\ ParserFrame

\* line 269, with line 282 done
BaseSchema(sub) ==
    Dict(<< <<S_required, List(<<Str(start_property)>>)>>,
            <<S_properties, Dict(<< <<start_property, sub>> >>)>> >>)

\* line 283: the call on the synthetic root, basetype and baseid at the
\* defaults of schema_parser
ProjectRoot(sub, flag) ==
    jsonschema_to_xml(BaseSchema(sub), S_NvidiaCPER, <<>>, <<>>, flag)

\* lines 267, 283-286: [0] of the call's value between header and footer
XmlOut(r) ==
    IF r.k = "tuple"
    THEN [st |-> "ok", xml |-> HEADER \o r.xml \o FOOTER]
    ELSE [st |-> "raise", xml |-> <<>>]

\* lines 281-286
Project ==
    /\ pc = "while"
    /\ Found
    /\ LET sub == Get(schema, start_property)
           r == ProjectRoot(sub, error_status_present)
       IN  /\ schema' = sub
           /\ error_status_present' = r.flag
           /\ output' = XmlOut(r)
    /\ pc' = "done"
    /\ UNCHANGED iters
    /\ ParserFrame

NextXml ==
    \/ ParserRaises
    \/ DescendOneOf
    \/ DescendRequired
    \/ RequiredWithoutStart
    \/ NotFound
    \/ Project

---------------------------------------------------------------------------
(* main, subcommand json_to_xml: the documents *)

MaxProps == 2

MaxAlts == 2

MaxWrap == 2

N_a == <<"a">>

N_b == <<"b">>

N_id == <<"i","d">>

N_validationBits == <<"v","a","l","i","d","a","t","i","o","n","B","i","t","s">>

N_errorType == <<"e","r","r","o","r","T","y","p","e">>

N_other == <<"o","t","h","e","r">>

Id_ErrorStatus == <<"c","p","e","r","-","j","s","o","n","-","e","r","r","o","r","-","s","t","a","t","u","s">>

Id_Foo == <<"c","p","e","r","-","j","s","o","n","-","f","o","o","-","s","e","c","t","i","o","n">>

Id_Bar == <<"c","p","e","r","-","j","s","o","n","-","b","a","r">>

Id_Example == <<"c","p","e","r","-","j","s","o","n","-","e","x","a","m","p","l","e","-","i","d","-","s","e","c","t","i","o","n">>

StrLeaf == Dict(<< <<S_type, Str(S_string)>> >>)

ObjLeaf == Dict(<< <<S_type, Str(S_object)>> >>)

NoTypeLeaf == Dict(<<>>)

\* 'required' without 'properties'
ReqNoProps ==
    Dict(<< <<S_type, Str(S_object)>>, <<S_required, List(<<Str(K_x)>>)>> >>)

\* {type: object, $id: id (when given), required: req, properties: props}
Obj(id, req, props) ==
    Dict(<< <<S_type, Str(S_object)>> >>
         \o (IF id = <<>> THEN <<>> ELSE << <<S_id, Str(id)>> >>)
         \o << <<S_required, List([i \in 1..Len(req) |-> Str(req[i])])>>,
               <<S_properties, Dict(props)>> >>)

Inner == Obj(<<>>, <<K_x>>, << <<K_x, StrLeaf>> >>)

\* the error-status schema: its errorType is the entity met again and again
ErrorStatus ==
    Obj(Id_ErrorStatus, <<N_errorType>>, << <<N_errorType, Inner>> >>)

ItemsOf(node) == Dict(<< <<S_type, Str(S_array)>>, <<S_items, node>> >>)

OneOfNode(alts) == Dict(<< <<S_type, Str(S_object)>>, <<S_oneOf, List(alts)>> >>)

AltPool ==
    { Obj(Id_Foo, <<K_x>>, << <<K_x, StrLeaf>> >>),
      Obj(Id_Bar, <<K_y>>, << <<K_y, StrLeaf>> >>),
      Obj(<<>>, <<K_y>>, << <<K_y, StrLeaf>> >>),
      ReqNoProps }

RECURSIVE SeqsUpTo(_, _)

\* the non-empty sequences over S of length at most n
SeqsUpTo(S, n) ==
    IF n = 0 THEN {}
    ELSE LET shorter == SeqsUpTo(S, n - 1)
         IN  { <<x>> : x \in S } \cup shorter
             \cup { Append(q, x) : q \in shorter, x \in S }

OneOfNodes == { OneOfNode(alts) : alts \in SeqsUpTo(AltPool, MaxAlts) }

\* a property name with a schema for it
Pairs ==
    { <<N_a, v>> : v \in {StrLeaf, NoTypeLeaf, ReqNoProps, ErrorStatus, Inner,
                          ItemsOf(Inner)} }
    \cup { <<N_b, v>> : v \in {StrLeaf, ObjLeaf, ErrorStatus} }
    \cup { <<N_validationBits, v>> : v \in {ObjLeaf, Inner} }
    \cup { <<N_errorType, v>> :
             v \in {Inner, OneOfNode(<<Inner, Obj(<<>>, <<K_y>>, << <<K_y, StrLeaf>> >>)>>)} }

RECURSIVE PropSeqs(_)

\* the property lists of at most n properties, no name twice
PropSeqs(n) ==
    IF n = 0 THEN {}
    ELSE LET shorter == PropSeqs(n - 1)
         IN  { <<pr>> : pr \in Pairs } \cup shorter
             \cup UNION { { Append(q, pr) :
                              pr \in { x \in Pairs :
                                         \A i \in 1..Len(q) : q[i][1] # x[1] } } :
                            q \in shorter }

Ids == { <<>>, Id_ErrorStatus, Id_Foo }

\* the required lists tried: the first property alone, or all of them
ReqLists(props) ==
    { <<props[1][1]>>, [i \in 1..Len(props) |-> props[i][1]] }

ObjNodes ==
    UNION { { Obj(id, req, props) : id \in Ids, req \in ReqLists(props) } :
              props \in PropSeqs(MaxProps) }

\* the 'sections' sub-schema of the specification's end-to-end example, with
\* and without a type
ExampleSections(typed) ==
    Dict((IF typed THEN << <<S_type, Str(S_object)>> >> ELSE <<>>)
         \o << <<S_required, List(<<Str(N_id)>>)>>,
               <<S_properties, Dict(<< <<N_id, StrLeaf>> >>)>>,
               <<S_id, Str(Id_Example)>> >>)

SectionsNodes ==
    ObjNodes \cup OneOfNodes
    \cup { Obj(id, <<N_a>>, << <<N_a, o>> >>) : id \in Ids, o \in OneOfNodes }
    \cup { ExampleSections(TRUE), ExampleSections(FALSE) }

\* {required: [name], properties: inner}
RequiredWrap(name, inner) ==
    Dict(<< <<S_required, List(<<Str(name)>>)>>, <<S_properties, inner>> >>)

Direct(node) == Dict(<< <<start_property, node>> >>)

\* documents in which the search for start_property ends at once
Ends ==
    { Direct(ExampleSections(TRUE)),
      Direct(Dict(<<>>)),
      Dict(<<>>),
      RequiredWrap(N_other, Direct(ExampleSections(TRUE))),
      Dict(<< <<S_required, List(<<Str(start_property)>>)>> >>),
      Dict(<< <<S_oneOf, List(<<V_1>>)>> >>),
      Dict(<< <<S_oneOf, Dict(<< <<K_x, V_1>> >>)>> >>) }

RECURSIVE Wrapped(_)

\* up to n levels of oneOf / required indirection around them
Wrapped(n) ==
    IF n = 0 THEN Ends
    ELSE LET W == Wrapped(n - 1)
         IN  Ends \cup { RequiredWrap(start_property, w) : w \in W }
                  \cup { Dict(<< <<S_oneOf, List(<<w, V_1>>)>> >>) : w \in W }

Docs ==
    { RequiredWrap(start_property, Direct(n)) : n \in SectionsNodes }
    \cup Wrapped(MaxWrap)

InitXml ==
    /\ pc = "while"
    /\ doc \in Docs
    /\ schema = doc
    /\ iters = 0
    /\ required \in BOOLEAN
    /\ parent_basetype \in {None, Str(S_NvidiaCPER)}
    /\ error_status_present = FALSE
    /\ output = Pending
    /\ ref_paths = <<>>
    /\ base_schema = None
    /\ master_schema = None

SpecXml == InitXml /\ [][NextXml]_vars

---------------------------------------------------------------------------
(* Claims about the resolver, checked under SpecMaster *)

RECURSIVE HasRefAnywhere(_)

\* some mapping of n, at any depth, has a '$ref' key
HasRefAnywhere(n) ==
    IF n.t = "dict"
    THEN Has(n, S_ref) \/ \E i \in 1..Len(n.v) : HasRefAnywhere(n.v[i][2])
    ELSE IF n.t = "list"
    THEN \E i \in 1..Len(n.v) : HasRefAnywhere(n.v[i])
    ELSE FALSE

RECURSIVE RefNames(_)

\* the basenames the '$ref' mappings of n name
RefNames(n) ==
    IF n.t = "dict"
    THEN IF Has(n, S_ref) THEN {basename(Get(n, S_ref).v)}
         ELSE UNION {RefNames(n.v[i][2]) : i \in 1..Len(n.v)}
    ELSE IF n.t = "list"
    THEN UNION {RefNames(n.v[i]) : i \in 1..Len(n.v)}
    ELSE {}

Returned == pc = "done" /\ master_schema.t # "raise"

\* C1: whenever replace_refs returns a tree, no mapping of that tree has a
\* '$ref' key, at any depth: not in nested mappings, not in sequences, not in
\* what was inlined from the referenced files.
C1_NoRefRemains == Returned => ~HasRefAnywhere(master_schema)

\* a.json is referenced from inside a sequence, a.json itself holds a
\* reference to b.json inside a sequence inside a mapping, and replace_refs
\* returned
C1_Witness ==
    /\ Returned
    /\ ref_paths[F_a].t = "dict"
    /\ ~Has(ref_paths[F_a], S_ref)
    /\ HasRefAnywhere(ref_paths[F_a])
    /\ base_schema.t = "list"
    /\ F_a \in RefNames(base_schema)

\* C2: a '$ref' whose basename is not in the index does not abort the
\* traversal: with every other reference resolvable, replace_refs still
\* returns a result to its caller.
C2_UnresolvedIsNotFatal ==
    ( /\ pc = "done"
      /\ \E f \in RefNames(base_schema) : f \notin DOMAIN ref_paths
      /\ \A f \in DOMAIN ref_paths : ref_paths[f].t = "dict" )
    => master_schema.t # "raise"

\* the top-level keys of the schema files
FileKeys == UNION {Keys(ref_paths[f]) : f \in {g \in DOMAIN ref_paths : ref_paths[g].t = "dict"}}

RECURSIVE StrippedAt(_, _)

\* res is orig with every '$ref' mapping replaced by a mapping that has no
\* '$schema' key and no key of the '$ref' mapping that the files do not supply
StrippedAt(orig, res) ==
    IF orig.t = "dict" THEN
        IF Has(orig, S_ref)
        THEN /\ res.t = "dict"
             /\ ~Has(res, S_schema)
             /\ \A key \in Keys(orig) : Has(res, key) => key \in FileKeys
        ELSE /\ res.t = "dict"
             /\ Len(res.v) = Len(orig.v)
             /\ \A i \in 1..Len(orig.v) : StrippedAt(orig.v[i][2], res.v[i][2])
    ELSE IF orig.t = "list" THEN
        /\ res.t = "list"
        /\ Len(res.v) = Len(orig.v)
        /\ \A i \in 1..Len(orig.v) : StrippedAt(orig.v[i], res.v[i])
    ELSE TRUE

\* C3: what replace_refs puts in the place of a mapping with '$ref' has no
\* top-level '$schema' key, whether or not the file defines one and also when
\* the file is itself a '$ref' mapping resolved through a further file; the
\* other keys of the '$ref' mapping are dropped, not merged in.
C3_SubstitutionStripped == Returned => StrippedAt(base_schema, master_schema)

\* a reference to a.json, which is a '$ref' mapping with a '$schema' of its
\* own, beside a '$ref' mapping with a second key that names b.json, which
\* defines '$schema'
C3_Witness ==
    /\ Returned
    /\ ref_paths[F_a].t = "dict"
    /\ Has(ref_paths[F_a], S_ref) /\ Has(ref_paths[F_a], S_schema)
    /\ Has(ref_paths[F_b], S_schema)
    /\ base_schema.t = "dict"
    /\ \E i, j \in 1..Len(base_schema.v) :
          /\ base_schema.v[i][2] = RefTo(P_a)
          /\ base_schema.v[j][2] = RefWith(P_b)

---------------------------------------------------------------------------
(* Claims about the projector, checked under SpecXml *)

\* schema_parser went through 'required' and 'properties' once, as in the
\* specification's end-to-end example, and called the projector on the
\* 'sections' sub-schema, which the variable schema then holds
Projected == pc = "done" /\ doc = RequiredWrap(start_property, Direct(schema))

\* n has a non-empty 'required' list and a non-empty 'properties' mapping
HasReqProps(n) ==
    /\ n.t = "dict"
    /\ Get(n, S_required).t = "list" /\ Truthy(Get(n, S_required))
    /\ Get(n, S_properties).t = "dict" /\ Truthy(Get(n, S_properties))

PropsOf(n) == Get(n, S_properties).v

Listed(n, name) ==
    \E j \in 1..Len(Get(n, S_required).v) : Get(n, S_required).v[j] = Str(name)

\* the properties of n that the configuration lets through
Emitted(n, i) == ~required \/ Listed(n, PropsOf(n)[i][1])

\* In the output the root's block (EntityType, one Property, /EntityType)
\* and the footer come last; the block before them is the one of the
\* 'sections' sub-schema
NodeBlock ==
    LET x == output.xml
        close == Len(x) - 4
        open == MaxOf({i \in 1..close : x[i].k = "EntityType"})
    IN  SubSeq(x, open, close)

PropertyNamesOf(block) == [i \in 1..(Len(block) - 2) |-> block[i + 1].Name]

ListedProps(n) == SelectSeq(PropsOf(n), LAMBDA pr : Listed(n, pr[1]))

\* n without the properties that 'required' does not list
Restrict(n) ==
    Dict([i \in 1..Len(n.v) |->
            IF n.v[i][1] = S_properties
            THEN <<S_properties, Dict(ListedProps(n))>>
            ELSE n.v[i]])

S_ErrorStatusErrorType == <<"E","r","r","o","r","S","t","a","t","u","s","E","r","r","o","r","T","y","p","e">>

S_ErrorStatus == <<"E","r","r","o","r","S","t","a","t","u","s">>

EndsWith(str, suffix) ==
    /\ Len(str) >= Len(suffix)
    /\ SubSeq(str, Len(str) - Len(suffix) + 1, Len(str)) = suffix

\* the properties of n that hold the error-status schema and are let through
Holders(n) ==
    {i \in 1..Len(PropsOf(n)) : PropsOf(n)[i][2] = ErrorStatus /\ Emitted(n, i)}

EntityIndexes(name) ==
    {i \in 1..Len(output.xml) :
       output.xml[i].k = "EntityType" /\ output.xml[i].Name = name}

ExampleDoc == RequiredWrap(start_property, Direct(ExampleSections(FALSE)))

S_ExampleId == <<"E","x","a","m","p","l","e","I","d">>

S_Id == <<"I","d">>

\* C6: the root schema of the end-to-end example, projected with the default
\* configuration, gives an XML document (header, EntityType blocks, footer)
\* with an EntityType named ExampleId that holds one Property, Id, of type
\* Edm.String.
C6_EndToEndExample ==
    (pc = "done" /\ doc = ExampleDoc /\ ~required /\ parent_basetype = None)
    => /\ output.st = "ok"
       /\ output.xml[1] = HEADER[1]
       /\ output.xml[Len(output.xml)] = FOOTER[1]
       /\ \E i \in 1..(Len(output.xml) - 2) :
            /\ output.xml[i] = EntityTypeOpen(S_ExampleId)
            /\ output.xml[i + 1] = PropertyEl(S_Id, Edm_String)
            /\ output.xml[i + 2] = EntityTypeClose

\* C7: the search for the start property ends; in particular, at a node
\* with a non-empty 'required' list that does not hold the start property,
\* and with no 'oneOf', the next pass of the loop reports 'could not find'
\* and returns.
C7_SearchEndsWithError ==
    [][ ( /\ pc = "while"
          /\ schema.t = "dict" /\ ~Found
          /\ ~Truthy(Get(schema, S_oneOf))
          /\ Truthy(Get(schema, S_required))
          /\ ~StartRequired )
        => (pc' = "done" /\ output'.st = "None") ]_vars

\* C8: a property whose schema has 'required' but no 'properties' yields no
\* output of its own, and the enclosing entity still completes: the
\* projection returns, with a Property element for every property the
\* configuration lets through.
C8_MissingPropertiesHaltsSubtree ==
    ( /\ Projected /\ HasReqProps(schema)
      /\ \E i \in 1..Len(PropsOf(schema)) :
            Emitted(schema, i) /\ PropsOf(schema)[i][2] = ReqNoProps
      /\ \A i \in 1..Len(PropsOf(schema)) :
            PropsOf(schema)[i][2] \in {ReqNoProps, StrLeaf, ObjLeaf} )
    => /\ output.st = "ok"
       /\ \A i \in 1..Len(PropsOf(schema)) :
            Emitted(schema, i) =>
               \E m \in 1..Len(NodeBlock) :
                  /\ NodeBlock[m].k = "Property"
                  /\ NodeBlock[m].Name = Capitalize(PropsOf(schema)[i][1])

RECURSIVE AltResults(_, _, _)

\* what each alternative of a oneOf under 'sections' comes to, in order
AltResults(alts, i, flag) ==
    IF i > Len(alts) THEN <<>>
    ELSE LET r == jsonschema_to_xml(alts[i], start_property, <<>>, <<>>, flag)
         IN  <<r>> \o AltResults(alts, i + 1, r.flag)

RECURSIVE ConcatXml(_, _)

ConcatXml(rs, i) == IF i > Len(rs) THEN <<>> ELSE rs[i].xml \o ConcatXml(rs, i + 1)

IsOneOf(n) ==
    /\ n.t = "dict"
    /\ ~Truthy(Get(n, S_required))
    /\ Get(n, S_oneOf).t = "list" /\ Truthy(Get(n, S_oneOf))

\* C9: the fragment of a oneOf sequence is each alternative's XML once, in
\* order, followed by one wrapping EntityType block, with one Property per
\* alternative that gave an emittedId, exactly when some alternative gave
\* one; when none did, nothing follows the alternatives' XML.
C9_OneOfShape ==
    (Projected /\ output.st = "ok" /\ IsOneOf(schema)) =>
        LET rs == AltResults(Get(schema, S_oneOf).v, 1, FALSE)
            named == SelectSeq(rs, LAMBDA r : Truthy(r.ret_id))
            alts_xml == ConcatXml(rs, 1)
            fragment == SubSeq(output.xml, 2, Len(output.xml) - 4)
            wrapper == SubSeq(fragment, Len(alts_xml) + 1, Len(fragment))
        IN  /\ Len(fragment) >= Len(alts_xml)
            /\ SubSeq(fragment, 1, Len(alts_xml)) = alts_xml
            /\ IF named = <<>> THEN wrapper = <<>>
               ELSE /\ Len(wrapper) = Len(named) + 2
                    /\ wrapper[1] = EntityTypeOpen(Capitalize(start_property))
                    /\ wrapper[Len(wrapper)] = EntityTypeClose
                    /\ \A j \in 1..Len(named) :
                          /\ wrapper[j + 1].k = "Property"
                          /\ wrapper[j + 1].Name = Capitalize(named[j].ret_id.v)

\* the baseId and basetype of the 'sections' sub-schema itself, and the
\* base type its Property elements are declared with
OwnBaseid(n) ==
    IF Truthy(Get(n, S_id)) THEN format_propname(Get(n, S_id).v) ELSE <<>>

OwnBasetype(n) ==
    IF Truthy(Get(n, S_id)) THEN format_propname(Get(n, S_id).v) ELSE start_property

DeclaredBase(n) ==
    IF Truthy(parent_basetype) THEN parent_basetype.v ELSE Capitalize(OwnBasetype(n))

\* C10: the baseId is extended with basetype for the validationbits
\* property alone: an object property declared after it in the same node
\* gets its Property element with the node's own, un-extended baseId.
C10_ValidationBitsScope ==
    (Projected /\ output.st = "ok" /\ HasReqProps(schema)) =>
        \A i, j \in 1..Len(PropsOf(schema)) :
            ( /\ i < j
              /\ Emitted(schema, i) /\ Emitted(schema, j)
              /\ lower(PropsOf(schema)[i][1]) = S_validationbits
              /\ lower(PropsOf(schema)[j][1]) # S_validationbits
              /\ Get(PropsOf(schema)[j][2], S_type) \in {Str(S_object), Str(S_array)} )
            => \E m \in 1..Len(NodeBlock) :
                  NodeBlock[m] =
                     PropertyEl(Capitalize(PropsOf(schema)[j][1]),
                                DeclaredBase(schema) \o <<".">> \o OwnBaseid(schema)
                                  \o Capitalize(PropsOf(schema)[j][1]))

====
